---------------------------- MODULE Spec2Model ----------------------------
(***************************************************************************)
(* Technical indicator engine, trend scorer and signal/risk engine of the  *)
(* US stock agent, as a state machine.                                     *)
(*                                                                         *)
(* Number representation.  The program computes in IEEE double precision.  *)
(* The model computes exactly:                                             *)
(*   - prices and volumes are integers (prices in cents);                  *)
(*   - an indicator value is a rational [k, n, d] with k = "num", or the   *)
(*     pandas not-a-number value NaN (k = "nan");                           *)
(*   - scores are integers in hundredths of a point, composite scores in   *)
(*     thousandths;                                                        *)
(*   - the MACD exponential averages are fixed point (1/1000 cent).        *)
(* Round-off of the double arithmetic is not modelled; a decimal tie in    *)
(* round(x, 2) is modelled as a choice between the two neighbours.         *)
(***************************************************************************)
EXTENDS Integers, Sequences, FiniteSets, TLC

VARIABLES
    series,          \* the caller's price series (main.py stock_data)
    df,              \* TechnicalAnalyzer.df: the analyzer's private copy
    cols,            \* derived columns added to TechnicalAnalyzer.df
    indicators,      \* TechnicalAnalyzer.indicators (dict: key -> value)
    signals,         \* TechnicalAnalyzer.signals (dict: key -> label)
    pc,              \* position in StockTradingAgent.analyze
    error,           \* the exception that ended the invocation, or "none"
    trend_score,     \* result of get_trend_score (hundredths), main.py technical_score
    raw_score,       \* value of `score` in get_trend_score before the clamp (points)
    price_info,      \* result of get_price_change
    thresholds,      \* config.SIGNAL_THRESHOLDS
    gen,             \* the SignalGenerator object's fields
    signal_info,     \* result of generate_signal
    risk_metrics,    \* result of calculate_risk_metrics
    series_cols,     \* columns of the caller's price series object
    other,           \* private state of a second invocation of analyze, suspended
    returned,        \* inputs and outputs of the invocations that returned, in order
    technical_config,\* config.TECHNICAL_CONFIG: the periods the analyzer reads
    risk_config      \* config.RISK_CONFIG: the ATR period

vars == <<series, df, cols, indicators, signals, pc, error, trend_score, raw_score,
          price_info, thresholds, gen, signal_info, risk_metrics, series_cols, other,
          returned, technical_config, risk_config>>

-----------------------------------------------------------------------------
(* Configuration: config.py *)

rsi_period == 14
macd_fast == 12
macd_slow == 26
macd_signal == 9
bb_period == 20
bb_std == 2
volume_ma_period == 20
ma_periods == <<5, 10, 20, 50>>

\* SCORING_CONFIG weights 0.6 / 0.4, in tenths
technical_weight == 6
sentiment_weight == 4

\* SIGNAL_THRESHOLDS, in points
DefaultThresholds == [strong_buy |-> 60, buy |-> 30, sell |-> -30, strong_sell |-> -60]

\* RISK_CONFIG: stop_loss_pct 0.03 in percent, atr_period, atr_multiplier 2.0
stop_loss_pct == 3
atr_period == 14
atr_multiplier == 2

\* the periods of TECHNICAL_CONFIG and RISK_CONFIG that calculate_rsi and
\* calculate_atr take their default window from
DefaultTechnicalConfig == [rsi_period |-> rsi_period]
DefaultRiskConfig == [atr_period |-> atr_period]

-----------------------------------------------------------------------------
(* Bounds of the model *)

\* longest price series (bars)
MaxLen == 51
\* price change per bar of a generated series is in -MaxStep..MaxStep cents
MaxStep == 1
\* sentiment scores deviate from the 25-point grid by at most MaxEps hundredths
MaxEps == 1

-----------------------------------------------------------------------------
(* Numbers: rationals and NaN *)

Num(n, d) == [k |-> "num", n |-> n, d |-> d]
Int2Num(x) == [k |-> "num", n |-> x, d |-> 1]
NaN == [k |-> "nan", n |-> 0, d |-> 1]
Inf == [k |-> "inf", n |-> 1, d |-> 1]
IsNaN(x) == x.k = "nan"
IsNum(x) == x.k = "num"

\* Python float comparisons: every comparison with NaN is False
Gt(a, b) == IsNum(a) /\ IsNum(b) /\ a.n * b.d > b.n * a.d
Lt(a, b) == Gt(b, a)
Ge(a, b) == IsNum(a) /\ IsNum(b) /\ a.n * b.d >= b.n * a.d
Le(a, b) == Ge(b, a)
NumEq(a, b) == IsNum(a) /\ IsNum(b) /\ a.n * b.d = b.n * a.d

Abs(x) == IF x < 0 THEN -x ELSE x
Max2(a, b) == IF a >= b THEN a ELSE b
Min2(a, b) == IF a <= b THEN a ELSE b

\* dict.get(key, default)
Get(dict, key, default) == IF key \in DOMAIN dict THEN dict[key] ELSE default
\* dict[key] = value
Put(dict, key, value) == [x \in (DOMAIN dict) \cup {key} |-> IF x = key THEN value ELSE dict[x]]
EmptyDict == [x \in {} |-> 0]

-----------------------------------------------------------------------------
(* Price series the model analyses *)

Bar(c, h, l, v) == [Close |-> c, High |-> h, Low |-> l, Volume |-> v]

\* close of bar i (1-based) of a series of n bars: slope s1 per bar, then slope s2
\* over the last k deltas, starting from base
GenClose(base, n, s1, s2, k, i) ==
    LET turn == Max2(n - k, 1)
    IN  IF i <= turn THEN base + s1 * (i - 1)
        ELSE base + s1 * (turn - 1) + s2 * (i - turn)

\* volume of bar i: vb on every bar, vlast on the last one
GenVolume(n, vb, vlast, i) == IF i = n THEN vlast ELSE vb

GenSeries(base, n, s1, s2, k, spread, vb, vlast) ==
    [i \in 1..n |->
        LET c == GenClose(base, n, s1, s2, k, i)
        IN  Bar(c, c + spread, c - spread, GenVolume(n, vb, vlast, i))]

Lens == {n \in 0..MaxLen : n <= 2 \/ (n >= 13 /\ n <= 15) \/ (n >= 19 /\ n <= 21) \/ n >= 49}
Steps == (-MaxStep)..MaxStep
Bases == {2 * MaxLen * MaxStep, 1000}
Turns == {1, 14}
Spreads == {0, 1}
VolumeShapes == {<<0, 0>>, <<10, 10>>, <<10, 20>>, <<10, 2>>}

SeriesSet ==
    {GenSeries(b, n, s1, s2, k, sp, vs[1], vs[2]) :
        b \in Bases, n \in Lens, s1 \in Steps, s2 \in Steps, k \in Turns,
        sp \in Spreads, vs \in VolumeShapes}

-----------------------------------------------------------------------------
(* Columns and rolling windows (pandas) *)

CloseCol(d) == [i \in 1..Len(d) |-> d[i].Close]
VolumeCol(d) == [i \in 1..Len(d) |-> d[i].Volume]

RECURSIVE SumRange(_, _, _)
SumRange(col, lo, hi) == IF lo > hi THEN 0 ELSE col[hi] + SumRange(col, lo, hi - 1)

\* Series.rolling(window=p).mean() at bar i: NaN until p bars are in the window
RollingMean(col, p, i) ==
    IF i < p THEN NaN ELSE Num(SumRange(col, i - p + 1, i), p)

\* Series.diff() with delta.where(delta > 0, 0): the first bar's NaN delta becomes 0
GainCol(d) ==
    [i \in 1..Len(d) |-> IF i = 1 THEN 0 ELSE Max2(d[i].Close - d[i-1].Close, 0)]
\* -delta.where(delta < 0, 0)
LossCol(d) ==
    [i \in 1..Len(d) |-> IF i = 1 THEN 0 ELSE Max2(d[i-1].Close - d[i].Close, 0)]

\* variant: a zero average loss yields NaN whatever the gain
RelativeStrengthZeroLossNaN(gain, loss) ==
    IF IsNaN(gain) \/ IsNaN(loss) THEN NaN
    ELSE IF loss.n = 0 THEN NaN
    ELSE Num(gain.n * loss.d, loss.n * gain.d)

\* rs = gain / loss on float64 Series: x/0 is inf, 0/0 is NaN, no exception
RelativeStrength(gain, loss) ==
    IF IsNaN(gain) \/ IsNaN(loss) THEN NaN
    ELSE IF loss.n = 0 THEN (IF gain.n = 0 THEN NaN ELSE Inf)
    ELSE Num(gain.n * loss.d, loss.n * gain.d)

\* 100 - (100 / (1 + rs)); 100/(1+inf) is 0
RsiOfRs(rs) ==
    IF IsNaN(rs) THEN NaN
    ELSE IF rs.k = "inf" THEN Int2Num(100)
    ELSE Num(100 * rs.n, rs.n + rs.d)

\* the RSI column at bar i
RsiAt(d, period, i) ==
    RsiOfRs(RelativeStrength(RollingMean(GainCol(d), period, i),
                             RollingMean(LossCol(d), period, i)))

\* RSI signal classification
RsiSignal(rsi) ==
    IF Gt(rsi, Int2Num(70)) THEN "overbought"
    ELSE IF Lt(rsi, Int2Num(30)) THEN "oversold"
    ELSE "neutral"

\* true range column: max over the non-NaN of high-low, |high-prev close|, |low-prev close|
TrueRangeCol(d) ==
    [i \in 1..Len(d) |->
        IF i = 1 THEN d[i].High - d[i].Low
        ELSE Max2(d[i].High - d[i].Low,
                  Max2(Abs(d[i].High - d[i-1].Close), Abs(d[i].Low - d[i-1].Close)))]

AtrAt(d, period, i) == RollingMean(TrueRangeCol(d), period, i)

\* moving averages at bar i, one per configured period
MaValues(d, i) == [j \in 1..Len(ma_periods) |-> RollingMean(CloseCol(d), ma_periods[j], i)]

MaAlignment(mv) ==
    LET is_bullish == \A j \in 1..(Len(mv) - 1) : Gt(mv[j], mv[j+1])
        is_bearish == \A j \in 1..(Len(mv) - 1) : Lt(mv[j], mv[j+1])
    IN  IF is_bullish THEN "bullish" ELSE IF is_bearish THEN "bearish" ELSE "mixed"

\* crossover of a fast line over a slow line between the previous and the latest bar
Cross(fast_prev, fast_curr, slow_prev, slow_curr) ==
    IF Le(fast_prev, slow_prev) /\ Gt(fast_curr, slow_curr) THEN "golden_cross"
    ELSE IF Ge(fast_prev, slow_prev) /\ Lt(fast_curr, slow_curr) THEN "death_cross"
    ELSE "none"

\* the columns 'MA5' and 'MA20' named in the crossover test
MaCross(d) ==
    LET n == Len(d)
        c == CloseCol(d)
    IN  Cross(RollingMean(c, 5, n - 1), RollingMean(c, 5, n),
              RollingMean(c, 20, n - 1), RollingMean(c, 20, n))

-----------------------------------------------------------------------------
(* MACD: unadjusted exponential averages, fixed point *)

\* Series.ewm(span, adjust=False).mean(): y[1] = x[1], y[i] = a*x[i] + (1-a)*y[i-1],
\* a = 2/(span+1)
RECURSIVE EmaFrom(_, _, _, _)
EmaFrom(col, span, i, acc) ==
    IF i > Len(col) THEN acc
    ELSE EmaFrom(col, span, i + 1,
                 Append(acc, IF i = 1 THEN col[1]
                             ELSE (2 * col[i] + (span - 1) * acc[i-1]) \div (span + 1)))

Ema(col, span) == EmaFrom(col, span, 1, <<>>)

MacdLine(d) ==
    LET c == [i \in 1..Len(d) |-> d[i].Close * 1000]   \* fixed point: 1/1000 cent
        ema_fast == Ema(c, macd_fast)
        ema_slow == Ema(c, macd_slow)
    IN  [i \in 1..Len(d) |-> ema_fast[i] - ema_slow[i]]

MacdSignalLine(d) == Ema(MacdLine(d), macd_signal)

-----------------------------------------------------------------------------
(* Bollinger bands *)

RECURSIVE ISqrtIn(_, _, _)
ISqrtIn(x, lo, hi) ==
    IF lo >= hi THEN lo
    ELSE LET mid == (lo + hi + 1) \div 2
         IN  IF mid * mid <= x THEN ISqrtIn(x, mid, hi) ELSE ISqrtIn(x, lo, mid - 1)
\* floor of the square root
ISqrt(x) == ISqrtIn(x, 0, 40000)

\* the last bb_period closes, taken relative to the first of them (the variance does
\* not depend on the offset)
BBWindow(d) ==
    LET n == Len(d)
    IN  [i \in 1..bb_period |-> d[n - bb_period + i].Close - d[n - bb_period + 1].Close]

\* numerator of the sample variance (ddof = 1) of the window w: the variance is
\* VarNum(w) / (p * (p - 1)), p = Len(w)
VarNum(w) ==
    LET p  == Len(w)
        s  == SumRange(w, 1, p)
        s2 == SumRange([i \in 1..p |-> w[i] * w[i]], 1, p)
    IN  p * s2 - s * s

\* [defined, dev, var]: dev/p = close - middle band, var/(p*(p-1)) = variance of the
\* window; defined is FALSE while the window is not full (bands are NaN)
BBStats(d) ==
    IF Len(d) < bb_period THEN [defined |-> FALSE, dev |-> 0, var |-> 0]
    ELSE LET w == BBWindow(d)
         IN  [defined |-> TRUE,
              dev |-> bb_period * w[bb_period] - SumRange(w, 1, bb_period),
              var |-> VarNum(w)]

\* current_price > bb_upper, i.e. close - middle > bb_std * std
AboveUpper(st) ==
    st.defined /\ st.dev > 0
    /\ st.dev * st.dev * (bb_period - 1) > bb_std * bb_std * bb_period * st.var
\* current_price < bb_lower
BelowLower(st) ==
    st.defined /\ st.dev < 0
    /\ st.dev * st.dev * (bb_period - 1) > bb_std * bb_std * bb_period * st.var

BollingerSignal(st) ==
    IF AboveUpper(st) THEN "above_upper"
    ELSE IF BelowLower(st) THEN "below_lower"
    ELSE "within_bands"

\* bb_std * rolling std, in 1/10 cent (rounded down)
BandHalfWidth10(st) == ISqrt((bb_std * bb_std * st.var * 100) \div (bb_period * (bb_period - 1)))

\* (current_price - bb_lower) / (bb_upper - bb_lower) * 100; 0/0 is NaN
BBPosition(st) ==
    IF ~st.defined THEN NaN
    ELSE IF st.var = 0 THEN NaN
    ELSE LET hw == BandHalfWidth10(st)
             dev10 == (st.dev * 10) \div bb_period
         IN  IF hw = 0 THEN NaN ELSE Num((dev10 + hw) * 100, 2 * hw)

\* the bands at the latest bar: middle + sign * bb_std * std
BBMiddle(d) == RollingMean(CloseCol(d), bb_period, Len(d))
BBBand(d, st, sign) ==
    IF ~st.defined THEN NaN
    ELSE Num(SumRange(CloseCol(d), Len(d) - bb_period + 1, Len(d)) * 10
             + sign * BandHalfWidth10(st) * bb_period, 10 * bb_period)

-----------------------------------------------------------------------------
(* Volume *)

\* current_volume / avg_volume if avg_volume > 0 else 1
VolumeRatio(d) ==
    LET n == Len(d)
        avg == RollingMean(VolumeCol(d), volume_ma_period, n)
    IN  IF Gt(avg, Int2Num(0)) THEN Num(d[n].Volume * avg.d, avg.n) ELSE Int2Num(1)

VolumeSignal(ratio) ==
    IF Gt(ratio, Num(3, 2)) THEN "high"
    ELSE IF Lt(ratio, Num(1, 2)) THEN "low"
    ELSE "normal"

-----------------------------------------------------------------------------
(* Trend scorer: TechnicalAnalyzer.get_trend_score *)

MaAlignmentPoints(ind) ==
    IF Get(ind, "ma_alignment", "None") = "bullish" THEN 30
    ELSE IF Get(ind, "ma_alignment", "None") = "bearish" THEN -30
    ELSE 0

MaCrossPoints(sig) ==
    IF Get(sig, "ma_cross", "None") = "golden_cross" THEN 20
    ELSE IF Get(sig, "ma_cross", "None") = "death_cross" THEN -20
    ELSE 0

\* variant: the histogram sign is added on top of a crossover
MacdPointsAdditive(ind, sig) ==
    (IF Get(sig, "macd", "None") = "golden_cross" THEN 20
     ELSE IF Get(sig, "macd", "None") = "death_cross" THEN -20
     ELSE 0)
    + (IF Gt(Get(ind, "macd_hist", Int2Num(0)), Int2Num(0)) THEN 10
       ELSE IF Lt(Get(ind, "macd_hist", Int2Num(0)), Int2Num(0)) THEN -10
       ELSE 0)

MacdPoints(ind, sig) ==
    IF Get(sig, "macd", "None") = "golden_cross" THEN 20
    ELSE IF Get(sig, "macd", "None") = "death_cross" THEN -20
    ELSE IF Gt(Get(ind, "macd_hist", Int2Num(0)), Int2Num(0)) THEN 10
    ELSE IF Lt(Get(ind, "macd_hist", Int2Num(0)), Int2Num(0)) THEN -10
    ELSE 0

\* variant: the oversold bonus is subtracted
RsiPointsOversoldPenalty(ind) ==
    LET rsi == Get(ind, "rsi", Int2Num(50))
    IN  IF Gt(rsi, Int2Num(70)) THEN -15
        ELSE IF Lt(rsi, Int2Num(30)) THEN -15
        ELSE IF Le(Int2Num(40), rsi) /\ Le(rsi, Int2Num(60)) THEN 5
        ELSE 0

RsiPoints(ind) ==
    LET rsi == Get(ind, "rsi", Int2Num(50))
    IN  IF Gt(rsi, Int2Num(70)) THEN -15
        ELSE IF Lt(rsi, Int2Num(30)) THEN 15
        ELSE IF Le(Int2Num(40), rsi) /\ Le(rsi, Int2Num(60)) THEN 5
        ELSE 0

BollingerPoints(sig) ==
    IF Get(sig, "bollinger", "None") = "below_lower" THEN 10
    ELSE IF Get(sig, "bollinger", "None") = "above_upper" THEN -10
    ELSE 0

\* `score` when the volume clause is reached
PreVolumeScore(ind, sig) ==
    MaAlignmentPoints(ind) + MaCrossPoints(sig) + MacdPoints(ind, sig)
    + RsiPoints(ind) + BollingerPoints(sig)

\* variant: a running total of exactly 0 counts as positive
VolumePointsZeroPositive(sig, score) ==
    IF Get(sig, "volume", "None") = "high"
    THEN (IF score >= 0 THEN 5 ELSE -5)
    ELSE 0

VolumePoints(sig, score) ==
    IF Get(sig, "volume", "None") = "high"
    THEN (IF score > 0 THEN 5 ELSE -5)
    ELSE 0

\* `score` when the return statement is reached
RawScore(ind, sig) ==
    PreVolumeScore(ind, sig) + VolumePoints(sig, PreVolumeScore(ind, sig))

\* max(-100, min(100, score))
Clamp(score) == Max2(-100, Min2(100, score))

\* variant: the sum is rescaled by the 95 points of the clauses before the volume
\* clause instead of being clamped
TrendScoreRescaled(ind, sig) == (RawScore(ind, sig) * 100) \div 95

TrendScore(ind, sig) == Clamp(RawScore(ind, sig))

-----------------------------------------------------------------------------
(* Signal and risk engine: SignalGenerator *)

\* round(x, ndigits) of x = n/d counted in units of the last kept digit: the nearest
\* integer; at a decimal tie the double nearest to x decides, either neighbour
RoundChoices(n, d) ==
    LET q == n \div d
        r == n % d
    IN  IF 2 * r < d THEN {q} ELSE IF 2 * r > d THEN {q + 1} ELSE {q, q + 1}

\* variant: the sentiment score enters the composite unweighted
NewSignalGeneratorFullSentiment(technical_score, sentiment_score, current_price, atr) ==
    [technical_score |-> technical_score,
     sentiment_score |-> sentiment_score,
     current_price   |-> current_price,
     atr             |-> atr,
     composite_score |-> technical_score * technical_weight + sentiment_score * 10]

\* SignalGenerator.__init__; scores in hundredths of a point, composite_score in
\* thousandths, current_price in cents, atr a number of cents or NaN
NewSignalGenerator(technical_score, sentiment_score, current_price, atr) ==
    [technical_score |-> technical_score,
     sentiment_score |-> sentiment_score,
     current_price   |-> current_price,
     atr             |-> atr,
     composite_score |-> technical_score * technical_weight
                         + sentiment_score * sentiment_weight]

\* variant: the bands are closed below (>= in place of >)
SignalOfClosedBelow(score, thr) ==
    IF score >= thr.strong_buy * 1000 THEN "strong_buy"
    ELSE IF score >= thr.buy * 1000 THEN "buy"
    ELSE IF score >= thr.sell * 1000 THEN "hold"
    ELSE IF score >= thr.strong_sell * 1000 THEN "sell"
    ELSE "strong_sell"

\* variant: the labels of the hold and sell branches are exchanged
SignalOfSwappedLabels(score, thr) ==
    IF score > thr.strong_buy * 1000 THEN "strong_buy"
    ELSE IF score > thr.buy * 1000 THEN "buy"
    ELSE IF score > thr.sell * 1000 THEN "sell"
    ELSE IF score > thr.strong_sell * 1000 THEN "hold"
    ELSE "strong_sell"

\* the signal category of generate_signal; score in thousandths, thr in points
\* ("strong_buy" .. "strong_sell" stand for the five labels of the source)
SignalOf(score, thr) ==
    IF score > thr.strong_buy * 1000 THEN "strong_buy"
    ELSE IF score > thr.buy * 1000 THEN "buy"
    ELSE IF score > thr.sell * 1000 THEN "hold"
    ELSE IF score > thr.strong_sell * 1000 THEN "sell"
    ELSE "strong_sell"

\* the risk figures are fractions of a cent with the common denominator RiskDen
RiskDen(atr) == 100 * atr.d

\* atr_stop_loss = current_price - atr * atr_multiplier  (numerator over RiskDen)
AtrStop(current_price, atr) ==
    current_price * RiskDen(atr) - atr.n * atr_multiplier * 100

\* variant: the percentage is added to the price
PctStopAbovePrice(current_price, atr) ==
    current_price * (100 + stop_loss_pct) * atr.d

\* pct_stop_loss = current_price * (1 - stop_loss_pct)
PctStop(current_price, atr) ==
    current_price * (100 - stop_loss_pct) * atr.d

\* variant: the ATR stop is taken when it is the smaller of the two stops
UseAtrStopWhenSmaller(current_price, atr) ==
    IsNum(atr) /\ AtrStop(current_price, atr) < PctStop(current_price, atr)

\* variant: the ATR stop is also taken when the two stops are equal
UseAtrStopOnTie(current_price, atr) ==
    IsNum(atr) /\ AtrStop(current_price, atr) >= PctStop(current_price, atr)

\* atr_stop_loss > pct_stop_loss; False when atr is NaN
UseAtrStop(current_price, atr) ==
    IsNum(atr) /\ AtrStop(current_price, atr) > PctStop(current_price, atr)

StopLoss(current_price, atr) ==
    IF UseAtrStop(current_price, atr) THEN AtrStop(current_price, atr)
    ELSE PctStop(current_price, atr)

\* variant: reward three times the risk
TargetPriceTriple(current_price, atr) ==
    current_price * RiskDen(atr)
    + (current_price * RiskDen(atr) - StopLoss(current_price, atr)) * 3

\* target_price = current_price + (current_price - stop_loss) * 2
TargetPrice(current_price, atr) ==
    current_price * RiskDen(atr)
    + (current_price * RiskDen(atr) - StopLoss(current_price, atr)) * 2

\* stop_loss_pct, in hundredths of a percent, as the fraction [n, d]
StopLossPct(current_price, atr) ==
    IF UseAtrStop(current_price, atr)
    THEN [n |-> atr.n * atr_multiplier * 10000, d |-> current_price * atr.d]
    ELSE [n |-> stop_loss_pct * 100, d |-> 1]

\* target_pct, in hundredths of a percent
TargetPct(current_price, atr) ==
    [n |-> StopLossPct(current_price, atr).n * 2, d |-> StopLossPct(current_price, atr).d]

\* volatility_pct = atr / current_price * 100 against a bound in percent
VolatilityBelow(current_price, atr, pct) ==
    IsNum(atr) /\ atr.n * 100 < pct * atr.d * current_price

VolatilityLevel(current_price, atr) ==
    IF VolatilityBelow(current_price, atr, 1) THEN "low"
    ELSE IF VolatilityBelow(current_price, atr, 2) THEN "medium"
    ELSE "high"

\* variant: the bands are closed below (>= in place of >)
PositionSuggestionClosedBelow(composite_score) ==
    IF composite_score >= 60000 THEN "40-50%"
    ELSE IF composite_score >= 30000 THEN "30-40%"
    ELSE IF composite_score >= 0 THEN "20-30%"
    ELSE IF composite_score >= -30000 THEN "10-20%"
    ELSE "0-10%"

\* composite_score in thousandths
PositionSuggestion(composite_score) ==
    IF composite_score > 60000 THEN "40-50%"
    ELSE IF composite_score > 30000 THEN "30-40%"
    ELSE IF composite_score > 0 THEN "20-30%"
    ELSE IF composite_score > -30000 THEN "10-20%"
    ELSE "0-10%"

-----------------------------------------------------------------------------
(* StockTradingAgent.analyze: the analysis of one price series *)

\* columns of the price series the data fetcher hands to analyze
BaseColumns == {"Open", "High", "Low", "Close", "Volume"}

\* variant: self.df is the caller's object, a column assigned on it is the caller's
CallerColumnsAliased(own, added) == own \cup added

\* columns of the caller's object after self.df[name] = ... for the names added:
\* self.df is df.copy(), a different object, so the caller's columns stay as they are
CallerColumns(own, added) == own

\* variant: the dicts are shared by the instances, a new instance finds the entries
\* of the previous one
InstanceDictShared(previous) == previous

\* self.indicators = {} and self.signals = {}: a new dict for each instance,
\* whatever the dict of a previous instance holds
InstanceDict(previous) == EmptyDict

\* an exception leaves the invocation
Raise(exc) == pc' = "raised" /\ error' = exc

\* Series.iloc[-1] of a column of the analyzer's frame raises IndexError when the
\* frame has no bars
LastBarMissing == Len(df) = 0

calculate_ma ==
    /\ pc = "calculate_ma"
    /\ cols' = cols \cup {"MA5", "MA10", "MA20", "MA50"}
    /\ series_cols' = CallerColumns(series_cols, {"MA5", "MA10", "MA20", "MA50"})
    /\ IF LastBarMissing
       THEN /\ Raise("IndexError")
            /\ UNCHANGED <<indicators, signals>>
       ELSE /\ indicators' = Put(indicators, "ma_alignment",
                                 MaAlignment(MaValues(df, Len(df))))
            /\ signals' = IF Len(df) >= 2
                          THEN Put(signals, "ma_cross", MaCross(df))
                          ELSE signals
            /\ pc' = "calculate_rsi"
            /\ UNCHANGED error
    /\ UNCHANGED <<technical_config, risk_config, other, returned,
                   series, df, trend_score, raw_score, price_info, thresholds, gen,
                   signal_info, risk_metrics>>

calculate_rsi ==
    /\ pc = "calculate_rsi"
    /\ cols' = cols \cup {"RSI"}
    /\ series_cols' = CallerColumns(series_cols, {"RSI"})
    /\ IF LastBarMissing
       THEN /\ Raise("IndexError")
            /\ UNCHANGED <<indicators, signals>>
       ELSE LET current_rsi == RsiAt(df, technical_config.rsi_period, Len(df))
            IN  /\ indicators' = Put(indicators, "rsi", current_rsi)
                /\ signals' = Put(signals, "rsi", RsiSignal(current_rsi))
                /\ pc' = "calculate_macd"
                /\ UNCHANGED error
    /\ UNCHANGED <<technical_config, risk_config, other, returned,
                   series, df, trend_score, raw_score, price_info, thresholds, gen,
                   signal_info, risk_metrics>>

calculate_macd ==
    /\ pc = "calculate_macd"
    /\ cols' = cols \cup {"MACD", "MACD_Signal", "MACD_Hist"}
    /\ series_cols' = CallerColumns(series_cols, {"MACD", "MACD_Signal", "MACD_Hist"})
    /\ IF Len(df) >= 2
       THEN LET n == Len(df)
                macd == MacdLine(df)
                sgn  == MacdSignalLine(df)
            IN  /\ signals' = Put(signals, "macd",
                                  Cross(Int2Num(macd[n-1]), Int2Num(macd[n]),
                                        Int2Num(sgn[n-1]), Int2Num(sgn[n])))
                /\ indicators' =
                       Put(Put(Put(indicators, "macd_value", Num(macd[n], 1000)),
                               "macd_signal", Num(sgn[n], 1000)),
                           "macd_hist", Num(macd[n] - sgn[n], 1000))
       ELSE UNCHANGED <<indicators, signals>>
    /\ pc' = "calculate_bollinger_bands"
    /\ UNCHANGED <<technical_config, risk_config, other, returned,
                   series, df, error, trend_score, raw_score, price_info, thresholds,
                   gen, signal_info, risk_metrics>>

calculate_bollinger_bands ==
    /\ pc = "calculate_bollinger_bands"
    /\ cols' = cols \cup {"BB_Middle", "BB_Upper", "BB_Lower"}
    /\ series_cols' = CallerColumns(series_cols, {"BB_Middle", "BB_Upper", "BB_Lower"})
    /\ IF LastBarMissing
       THEN /\ Raise("IndexError")
            /\ UNCHANGED <<indicators, signals>>
       ELSE LET st == BBStats(df)
            IN  /\ indicators' =
                       Put(Put(Put(Put(indicators, "bb_upper", BBBand(df, st, 1)),
                                   "bb_middle", BBMiddle(df)),
                               "bb_lower", BBBand(df, st, -1)),
                           "bb_position", BBPosition(st))
                /\ signals' = Put(signals, "bollinger", BollingerSignal(st))
                /\ pc' = "calculate_volume_indicators"
                /\ UNCHANGED error
    /\ UNCHANGED <<technical_config, risk_config, other, returned,
                   series, df, trend_score, raw_score, price_info, thresholds, gen,
                   signal_info, risk_metrics>>

calculate_volume_indicators ==
    /\ pc = "calculate_volume_indicators"
    /\ cols' = cols \cup {"Volume_MA"}
    /\ series_cols' = CallerColumns(series_cols, {"Volume_MA"})
    /\ IF LastBarMissing
       THEN /\ Raise("IndexError")
            /\ UNCHANGED <<indicators, signals>>
       ELSE LET volume_ratio == VolumeRatio(df)
            IN  /\ indicators' = Put(indicators, "volume_ratio", volume_ratio)
                /\ signals' = Put(signals, "volume", VolumeSignal(volume_ratio))
                /\ pc' = "calculate_atr"
                /\ UNCHANGED error
    /\ UNCHANGED <<technical_config, risk_config, other, returned,
                   series, df, trend_score, raw_score, price_info, thresholds, gen,
                   signal_info, risk_metrics>>

\* calculate_atr(period=None): the period defaults to TECHNICAL_CONFIG["rsi_period"]
calculate_atr ==
    /\ pc = "calculate_atr"
    /\ cols' = cols \cup {"ATR"}
    /\ series_cols' = CallerColumns(series_cols, {"ATR"})
    /\ IF LastBarMissing
       THEN /\ Raise("IndexError")
            /\ UNCHANGED indicators
       ELSE /\ indicators' = Put(indicators, "atr", AtrAt(df, technical_config.rsi_period, Len(df)))
            /\ pc' = "get_trend_score"
            /\ UNCHANGED error
    /\ UNCHANGED <<technical_config, risk_config, other, returned,
                   series, df, signals, trend_score, raw_score, price_info, thresholds,
                   gen, signal_info, risk_metrics>>

get_trend_score ==
    /\ pc = "get_trend_score"
    /\ raw_score' = RawScore(indicators, signals)
    /\ trend_score' = TrendScore(indicators, signals)
    /\ pc' = "get_price_change"
    /\ UNCHANGED <<technical_config, risk_config, other, returned, series_cols,
                   series, df, cols, indicators, signals, error, price_info, thresholds,
                   gen, signal_info, risk_metrics>>

get_price_change ==
    /\ pc = "get_price_change"
    /\ IF LastBarMissing
       THEN /\ Raise("IndexError")
            /\ UNCHANGED price_info
       ELSE LET n == Len(df)
                current == df[n].Close
                prev == IF n >= 2 THEN df[n-1].Close ELSE current
            IN  /\ price_info' = [current |-> current, previous |-> prev,
                                  change |-> current - prev,
                                  change_pct |-> IF prev > 0
                                                 THEN Num((current - prev) * 100, prev)
                                                 ELSE Int2Num(0)]
                /\ pc' = "SignalGenerator"
                /\ UNCHANGED error
    /\ UNCHANGED <<technical_config, risk_config, other, returned, series_cols,
                   series, df, cols, indicators, signals, trend_score, raw_score,
                   thresholds, gen, signal_info, risk_metrics>>

\* sentiment scores: (positive - negative) / total * 100, in hundredths
SentimentScores ==
    {x \in {2500 * g + e : g \in -4..4, e \in (-MaxEps)..MaxEps} : x >= -10000 /\ x <= 10000}
\* the sentiment scores the analysis of a price series is combined with
SeriesSentiments == {-10000, 0, 10000}

\* main.py: SignalGenerator(technical_score, sentiment_score, get_current_price(),
\* indicators.get('atr', 0))
SignalGenerator ==
    /\ pc = "SignalGenerator"
    /\ \E sentiment_score \in SeriesSentiments :
          gen' = NewSignalGenerator(trend_score * 100, sentiment_score,
                                    df[Len(df)].Close,
                                    Get(indicators, "atr", Int2Num(0)))
    /\ pc' = "generate_signal"
    /\ UNCHANGED <<technical_config, risk_config, other, returned, series_cols,
                   series, df, cols, indicators, signals, error, trend_score, raw_score,
                   price_info, thresholds, signal_info, risk_metrics>>

generate_signal ==
    /\ pc = "generate_signal"
    /\ \E composite_rounded \in RoundChoices(gen.composite_score, 10) :
          signal_info' = [signal          |-> SignalOf(gen.composite_score, thresholds),
                          composite_score |-> composite_rounded,
                          technical_score |-> gen.technical_score,
                          sentiment_score |-> gen.sentiment_score]
    /\ pc' = "calculate_risk_metrics"
    /\ UNCHANGED <<technical_config, risk_config, other, returned, series_cols,
                   series, df, cols, indicators, signals, error, trend_score, raw_score,
                   price_info, thresholds, gen, risk_metrics>>

calculate_risk_metrics ==
    /\ pc = "calculate_risk_metrics"
    /\ LET cp  == gen.current_price
           atr == gen.atr
           slp == StopLossPct(cp, atr)
           tp  == TargetPct(cp, atr)
       IN  \E stop_loss \in RoundChoices(StopLoss(cp, atr), RiskDen(atr)),
              target_price \in RoundChoices(TargetPrice(cp, atr), RiskDen(atr)),
              stop_pct \in RoundChoices(slp.n, slp.d),
              target_pct \in RoundChoices(tp.n, tp.d),
              vol_pct \in (IF IsNum(atr)
                           THEN {Num(v, 100) : v \in RoundChoices(atr.n * 10000, atr.d * cp)}
                           ELSE {NaN}) :
              risk_metrics' =
                  [stop_loss           |-> stop_loss,
                   stop_loss_pct       |-> stop_pct,
                   stop_loss_method    |-> IF UseAtrStop(cp, atr) THEN "ATR" ELSE "fixed_pct",
                   target_price        |-> target_price,
                   target_pct          |-> target_pct,
                   volatility_pct      |-> vol_pct,
                   volatility_level    |-> VolatilityLevel(cp, atr),
                   risk_level          |-> VolatilityLevel(cp, atr),
                   position_suggestion |-> PositionSuggestion(gen.composite_score),
                   risk_reward_ratio   |-> "1:2"]
    /\ pc' = "done"
    /\ UNCHANGED <<technical_config, risk_config, other, returned, series_cols,
                   series, df, cols, indicators, signals, error, trend_score, raw_score,
                   price_info, thresholds, gen, signal_info>>

-----------------------------------------------------------------------------
(* Specification of one analysis: TechnicalAnalyzer(stock_data), calculate_all,    *)
(* get_trend_score, get_price_change, SignalGenerator, generate_signal,            *)
(* calculate_risk_metrics                                                          *)

Init ==
    /\ series \in SeriesSet
    /\ df = series
    /\ cols = {}
    /\ indicators = EmptyDict
    /\ signals = EmptyDict
    /\ pc = "calculate_ma"
    /\ error = "none"
    /\ trend_score = 0
    /\ raw_score = 0
    /\ price_info = EmptyDict
    /\ thresholds = DefaultThresholds
    /\ gen = EmptyDict
    /\ signal_info = EmptyDict
    /\ risk_metrics = EmptyDict
    /\ series_cols = BaseColumns
    /\ other = EmptyDict
    /\ returned = <<>>
    /\ technical_config = DefaultTechnicalConfig
    /\ risk_config = DefaultRiskConfig

Next ==
    \/ calculate_ma
    \/ calculate_rsi
    \/ calculate_macd
    \/ calculate_bollinger_bands
    \/ calculate_volume_indicators
    \/ calculate_atr
    \/ get_trend_score
    \/ get_price_change
    \/ SignalGenerator
    \/ generate_signal
    \/ calculate_risk_metrics

Spec == Init /\ [][Next]_vars

-----------------------------------------------------------------------------
(* Specification of the trend scorer alone: get_trend_score on an arbitrary       *)
(* IndicatorSet, keys absent or present                                            *)

\* a dict holding key with one of the values, or not holding it
OptKey(key, values) == {EmptyDict} \cup {key :> v : v \in values}

RsiSamples ==
    {NaN} \cup {Num(n, 100) : n \in {0, 2999, 3000, 3999, 4000, 5000, 6000, 6001,
                                     7000, 7001, 10000}}
MacdHistSamples == {NaN, Num(-1, 1000), Int2Num(0), Num(1, 1000)}

IndicatorDicts ==
    {a @@ b @@ c : a \in OptKey("ma_alignment", {"bullish", "bearish", "mixed"}),
                   b \in OptKey("macd_hist", MacdHistSamples),
                   c \in OptKey("rsi", RsiSamples)}

SignalDicts ==
    {a @@ b @@ c @@ e :
        a \in OptKey("ma_cross", {"golden_cross", "death_cross", "none"}),
        b \in OptKey("macd", {"golden_cross", "death_cross", "none"}),
        c \in OptKey("bollinger", {"above_upper", "below_lower", "within_bands"}),
        e \in OptKey("volume", {"high", "low", "normal"})}

InitScore ==
    /\ series = <<>>
    /\ df = <<>>
    /\ cols = {}
    /\ indicators \in IndicatorDicts
    /\ signals \in SignalDicts
    /\ pc = "get_trend_score"
    /\ error = "none"
    /\ trend_score = 0
    /\ raw_score = 0
    /\ price_info = EmptyDict
    /\ thresholds = DefaultThresholds
    /\ gen = EmptyDict
    /\ signal_info = EmptyDict
    /\ risk_metrics = EmptyDict
    /\ series_cols = BaseColumns
    /\ other = EmptyDict
    /\ returned = <<>>
    /\ technical_config = DefaultTechnicalConfig
    /\ risk_config = DefaultRiskConfig

NextScore == get_trend_score

SpecScore == InitScore /\ [][NextScore]_vars

\* get_trend_score has returned
Scored == pc \notin {"calculate_ma", "calculate_rsi", "calculate_macd",
                     "calculate_bollinger_bands", "calculate_volume_indicators",
                     "calculate_atr", "get_trend_score", "raised"}

-----------------------------------------------------------------------------
(* C1: get_trend_score returns a value in [-100, 100] for every IndicatorSet:     *)
(* every combination of alignment, crossovers, MACD histogram sign, RSI value      *)
(* (NaN included), Bollinger and volume signal, with any of the keys absent.       *)

TrendScoreInRange == Scored => (trend_score >= -100 /\ trend_score <= 100)

\* a scored IndicatorSet with a NaN RSI and an absent MACD signal
TrendScoreInRangeWitness ==
    /\ Scored
    /\ "rsi" \in DOMAIN indicators /\ IsNaN(indicators["rsi"])
    /\ "macd" \notin DOMAIN signals
    /\ "ma_alignment" \notin DOMAIN indicators
    /\ Get(signals, "volume", "None") = "high"
    /\ Get(signals, "ma_cross", "None") = "death_cross"
    /\ trend_score = -25

(* C2 as stated: when every clause fires in the bullish direction the sum exceeds  *)
(* 100 before the clamp and the returned score is 100.                             *)

AllBullish ==
    /\ Get(indicators, "ma_alignment", "None") = "bullish"
    /\ Get(signals, "ma_cross", "None") = "golden_cross"
    /\ Get(signals, "macd", "None") = "golden_cross"
    /\ Lt(Get(indicators, "rsi", Int2Num(50)), Int2Num(30))
    /\ Get(signals, "bollinger", "None") = "below_lower"
    /\ Get(signals, "volume", "None") = "high"

AllBullishExceedsBound ==
    (Scored /\ AllBullish) => (raw_score > 100 /\ trend_score = 100)

(* C2 amended: when every clause fires in the bullish direction the contributions  *)
(* sum to exactly 100 before the clamp and the returned score is 100; the sum of   *)
(* no IndicatorSet leaves [-100, 100], so the clamp returns the sum unchanged.     *)

AllBullishSumsToBound ==
    /\ (Scored /\ AllBullish) => (raw_score = 100 /\ trend_score = 100)
    /\ Scored => trend_score = raw_score

AllBullishWitness == Scored /\ AllBullish /\ raw_score = 100

-----------------------------------------------------------------------------
(* Specification of the signal and risk engine alone: a SignalGenerator built     *)
(* from arbitrary scores, price and ATR, then generate_signal and                  *)
(* calculate_risk_metrics                                                          *)

TechnicalScores == {2500 * g : g \in {-4, -2, 0, 2, 4}}
Prices == {50, 1010, 9999}
AtrSamples == {NaN} \cup {Num(n, d) : n \in {0, 3, 21, 100}, d \in {1, 4, 14}}

ThresholdConfigs ==
    {DefaultThresholds,
     [strong_buy |-> 75, buy |-> 25, sell |-> -25, strong_sell |-> -75],
     [strong_buy |-> 30, buy |-> 60, sell |-> -60, strong_sell |-> -30]}

InitSignal ==
    /\ series = <<>>
    /\ df = <<>>
    /\ cols = {}
    /\ indicators = EmptyDict
    /\ signals = EmptyDict
    /\ pc = "generate_signal"
    /\ error = "none"
    /\ trend_score = 0
    /\ raw_score = 0
    /\ price_info = EmptyDict
    /\ thresholds \in ThresholdConfigs
    /\ gen \in {NewSignalGenerator(t, s, cp, a) :
                    t \in TechnicalScores, s \in SentimentScores,
                    cp \in Prices, a \in AtrSamples}
    /\ signal_info = EmptyDict
    /\ risk_metrics = EmptyDict
    /\ series_cols = BaseColumns
    /\ other = EmptyDict
    /\ returned = <<>>
    /\ technical_config = DefaultTechnicalConfig
    /\ risk_config = DefaultRiskConfig

NextSignal ==
    \/ generate_signal
    \/ calculate_risk_metrics

SpecSignal == InitSignal /\ [][NextSignal]_vars

\* generate_signal has returned
Signalled == pc \in {"calculate_risk_metrics", "done"}
\* calculate_risk_metrics has returned
RiskDone == pc = "done"

-----------------------------------------------------------------------------
(* C3: composite = technical_score * 0.6 + sentiment_score * 0.4, and under the    *)
(* default thresholds generate_signal maps the unrounded composite through         *)
(* half-open bands: > 60 strong-buy, (30, 60] buy, (-30, 30] hold, (-60, -30]      *)
(* sell, <= -60 strong-sell; a composite equal to a threshold is in the lower band *)

CompositeBands ==
    (Signalled /\ thresholds = DefaultThresholds) =>
        LET c == gen.composite_score
            sig == signal_info.signal
        IN  /\ 10 * c = gen.technical_score * 60 + gen.sentiment_score * 40
            /\ (c > 60000) => sig = "strong_buy"
            /\ (c > 30000 /\ c <= 60000) => sig = "buy"
            /\ (c > -30000 /\ c <= 30000) => sig = "hold"
            /\ (c > -60000 /\ c <= -30000) => sig = "sell"
            /\ (c <= -60000) => sig = "strong_sell"

\* composite 60.004: reported as 60.00 and classified strong-buy
CompositeBandsWitness ==
    /\ Signalled /\ thresholds = DefaultThresholds
    /\ gen.composite_score = 60004
    /\ signal_info.composite_score = 6000
    /\ signal_info.signal = "strong_buy"

(* C4: for fixed thresholds and composite scores a <= b, the category of b is      *)
(* never weaker than the category of a (strong-sell < sell < hold < buy <          *)
(* strong-buy)                                                                     *)

Rank(sig) ==
    CASE sig = "strong_sell" -> 0
      [] sig = "sell" -> 1
      [] sig = "hold" -> 2
      [] sig = "buy" -> 3
      [] sig = "strong_buy" -> 4

\* composite scores around every threshold and at the ends of the range
CompositeProbes(thr) ==
    {-100000, 100000} \cup
    {t * 1000 + e : t \in {thr.strong_buy, thr.buy, thr.sell, thr.strong_sell},
                    e \in {-1, 0, 1}}

SignalMonotone ==
    Signalled =>
        \A b \in CompositeProbes(thresholds) :
            /\ (b <= gen.composite_score) =>
                   Rank(SignalOf(b, thresholds)) <= Rank(signal_info.signal)
            /\ (b >= gen.composite_score) =>
                   Rank(SignalOf(b, thresholds)) >= Rank(signal_info.signal)

\* a hold under thresholds other than the defaults, with weaker and stronger probes
SignalMonotoneWitness ==
    /\ Signalled /\ thresholds # DefaultThresholds
    /\ signal_info.signal = "hold"
    /\ \E a, b \in CompositeProbes(thresholds) :
          /\ a < gen.composite_score /\ SignalOf(a, thresholds) = "sell"
          /\ b > gen.composite_score /\ SignalOf(b, thresholds) = "buy"

(* C5: calculate_risk_metrics selects the larger of the ATR stop                   *)
(* current_price - atr * 2 and the fixed-percentage stop current_price * 0.97, and *)
(* stop_loss_method names it: ATR when the ATR stop is larger, fixed-percentage    *)
(* otherwise, also when the two are equal (and when the ATR is NaN)                *)

StopIsLargerCandidate ==
    RiskDone =>
        LET cp  == gen.current_price
            atr == gen.atr
            den == 100 * atr.d
            atr_stop == cp * den - 2 * atr.n * 100
            pct_stop == cp * 97 * atr.d
        IN  IF IsNum(atr)
            THEN /\ risk_metrics.stop_loss \in RoundChoices(Max2(atr_stop, pct_stop), den)
                 /\ (atr_stop > pct_stop) => risk_metrics.stop_loss_method = "ATR"
                 /\ (atr_stop <= pct_stop) => risk_metrics.stop_loss_method = "fixed_pct"
            ELSE /\ risk_metrics.stop_loss \in RoundChoices(cp * 97, 100)
                 /\ risk_metrics.stop_loss_method = "fixed_pct"

\* price 0.50, ATR 0.0075: both stops are 0.485
StopIsLargerCandidateWitness ==
    /\ RiskDone
    /\ gen.current_price = 50 /\ gen.atr = Num(3, 4)
    /\ risk_metrics.stop_loss_method = "fixed_pct"

(* C6 as stated: the reported target_price equals                                  *)
(* current_price + 2 * (current_price - reported stop_loss)                        *)

ReportedTargetExact ==
    (RiskDone /\ IsNum(gen.atr)) =>
        risk_metrics.target_price
            = gen.current_price + 2 * (gen.current_price - risk_metrics.stop_loss)

(* C6 amended: target_price is current_price + 2 * (current_price - chosen stop)   *)
(* computed on the unrounded stop and then rounded to 2 decimals; stop_loss is     *)
(* rounded separately, so the reported target_price differs from                   *)
(* current_price + 2 * (current_price - reported stop_loss) by at most 0.015       *)

ReportedTargetWithinRounding ==
    (RiskDone /\ IsNum(gen.atr)) =>
        LET cp == gen.current_price
            den == 100 * gen.atr.d
            from_reported == cp + 2 * (cp - risk_metrics.stop_loss)
        IN  /\ 2 * Abs(risk_metrics.target_price - from_reported) <= 3
            /\ \E stop \in {AtrStop(cp, gen.atr), PctStop(cp, gen.atr)} :
                  /\ risk_metrics.stop_loss \in RoundChoices(stop, den)
                  /\ risk_metrics.target_price
                         \in RoundChoices(cp * den + 2 * (cp * den - stop), den)

\* price 10.10: stop 9.797 reported 9.80, target 10.706 reported 10.71, not 10.70
ReportedTargetWitness ==
    /\ RiskDone
    /\ gen.current_price = 1010 /\ gen.atr = Num(100, 1)
    /\ risk_metrics.stop_loss = 980
    /\ risk_metrics.target_price = 1071

-----------------------------------------------------------------------------
(* Shapes of price series *)

\* constant close
FlatCloses(d) == \A i \in 1..Len(d) : d[i].Close = d[1].Close
\* constant high, low and close
FlatBars(d) ==
    \A i \in 1..Len(d) : d[i].Close = d[1].Close /\ d[i].High = d[1].Close
                         /\ d[i].Low = d[1].Close
\* the last 14 deltas are all positive
RisingTail(d) ==
    Len(d) >= 15 /\ \A i \in (Len(d) - 13)..Len(d) : d[i].Close > d[i-1].Close

\* calculate_rsi has returned
RsiDone == "rsi" \in DOMAIN indicators

(* C7 as stated: for a flat price series over at least the ATR window the ATR is   *)
(* 0 and calculate_risk_metrics reports the fixed-percentage method                *)

FlatSeriesFixedPct ==
    (RiskDone /\ Len(df) >= 14 /\ FlatBars(df)) =>
        /\ NumEq(indicators["atr"], Int2Num(0))
        /\ risk_metrics.stop_loss_method = "fixed_pct"

(* C7 amended: for a flat price series over at least the ATR window the ATR is 0   *)
(* and calculate_risk_metrics reports the ATR method: the ATR stop equals          *)
(* current_price, which is larger than the fixed-percentage stop; stop_loss and    *)
(* target_price are both current_price                                             *)

FlatSeriesAtrMethod ==
    (RiskDone /\ Len(df) >= 14 /\ FlatBars(df)) =>
        /\ NumEq(indicators["atr"], Int2Num(0))
        /\ risk_metrics.stop_loss_method = "ATR"
        /\ risk_metrics.stop_loss = df[Len(df)].Close
        /\ risk_metrics.target_price = df[Len(df)].Close

FlatSeriesWitness ==
    /\ RiskDone /\ Len(df) >= 14 /\ FlatBars(df)
    /\ gen.atr = Num(0, 14)
    /\ risk_metrics.stop_loss_method = "ATR"

(* C8: for a flat close series over the RSI window calculate_rsi does not fail     *)
(* and reports the RSI value 50 with the signal neutral                            *)

FlatRsiIsFifty ==
    (Len(df) >= 14 /\ FlatCloses(df) /\ pc \notin {"calculate_ma", "calculate_rsi"}) =>
        /\ pc # "raised"
        /\ RsiDone
        /\ NumEq(indicators["rsi"], Int2Num(50))
        /\ signals["rsi"] = "neutral"

(* C9: for a close series strictly rising over the last 14 deltas calculate_rsi    *)
(* reports RSI = 100 without error, the RSI signal is overbought, and              *)
(* get_trend_score applies the -15 RSI contribution                                *)

RisingRsiIsHundred ==
    (RisingTail(df) /\ pc \notin {"calculate_ma", "calculate_rsi"}) =>
        /\ pc # "raised"
        /\ RsiDone
        /\ NumEq(indicators["rsi"], Int2Num(100))
        /\ signals["rsi"] = "overbought"
        /\ Scored =>
              LET partial == MaAlignmentPoints(indicators) + MaCrossPoints(signals)
                             + MacdPoints(indicators, signals) - 15
                             + BollingerPoints(signals)
              IN  raw_score = partial + VolumePoints(signals, partial)

\* a series that fell and then rose for 14 deltas, scored
RisingRsiWitness ==
    /\ Scored /\ RisingTail(df)
    /\ df[1].Close > df[2].Close
    /\ NumEq(indicators["rsi"], Int2Num(100))

(* C10: calculate_all followed by get_trend_score completes without raising for a  *)
(* price series shorter than the indicator windows, a one-bar series and an empty  *)
(* series included                                                                 *)

ShortSeriesNeverRaises == (Len(series) < 5) => pc # "raised"

-----------------------------------------------------------------------------
(* C11: for a non-empty series with fewer bars than the window of a windowed       *)
(* indicator (rsi 14, Bollinger bands and bb_position 20, volume_ratio 20, atr 14) *)
(* the value stored for that indicator is NaN, not a number, and get_trend_score   *)
(* still returns a value in [-100, 100]                                            *)

\* the value stored under key, once stored, is NaN
StoredNaN(key) == (key \in DOMAIN indicators) => IsNaN(indicators[key])

ShortSeriesNotAvailable ==
    (Len(df) >= 1) =>
        /\ (Len(df) < rsi_period) => StoredNaN("rsi")
        /\ (Len(df) < bb_period) =>
               /\ StoredNaN("bb_upper") /\ StoredNaN("bb_middle")
               /\ StoredNaN("bb_lower") /\ StoredNaN("bb_position")
        /\ (Len(df) < volume_ma_period) => StoredNaN("volume_ratio")
        /\ (Len(df) < rsi_period) => StoredNaN("atr")
        /\ Scored => (trend_score >= -100 /\ trend_score <= 100)

(* C12: with the default weights 0.6 / 0.4 the composite score held by the         *)
(* SignalGenerator is in [-100, 100] whenever technical_score and sentiment_score  *)
(* are each in [-100, 100]                                                         *)

\* a score in hundredths of a point within [-100, 100]
ScoreInRange(x) == x >= -10000 /\ x <= 10000

CompositeInRange ==
    (gen # EmptyDict /\ ScoreInRange(gen.technical_score)
     /\ ScoreInRange(gen.sentiment_score)) =>
        (gen.composite_score >= -100000 /\ gen.composite_score <= 100000)

\* both scores at 100: the composite reaches the upper end and is reported as 100
CompositeInRangeWitness ==
    /\ Signalled
    /\ gen.technical_score = 10000 /\ gen.sentiment_score = 10000
    /\ gen.composite_score = 100000
    /\ signal_info.composite_score = 10000

-----------------------------------------------------------------------------
(* Specification of several invocations of StockTradingAgent.analyze: two          *)
(* invocations are in flight at a time and control passes between them at any      *)
(* step; an invocation that returned is followed by a new one                      *)

\* invocations started in one behaviour
MaxCalls == 3

\* the state private to one invocation: its TechnicalAnalyzer and SignalGenerator
\* instances, its caller's series and the locals of analyze
Private ==
    [series |-> series, series_cols |-> series_cols, df |-> df, cols |-> cols,
     indicators |-> indicators, signals |-> signals, pc |-> pc, error |-> error,
     trend_score |-> trend_score, raw_score |-> raw_score, price_info |-> price_info,
     gen |-> gen, signal_info |-> signal_info, risk_metrics |-> risk_metrics]

\* no invocation yet
Idle ==
    [series |-> <<>>, series_cols |-> BaseColumns, df |-> <<>>, cols |-> {},
     indicators |-> EmptyDict, signals |-> EmptyDict, pc |-> "idle", error |-> "none",
     trend_score |-> 0, raw_score |-> 0, price_info |-> EmptyDict,
     gen |-> EmptyDict, signal_info |-> EmptyDict, risk_metrics |-> EmptyDict]

\* the price series handed to the invocations: 1, 2 and 21 rising bars
CallSeries == {GenSeries(1000, n, 1, 1, 1, 1, 10, 20) : n \in {1, 2, 21}}

InFlight(p) == IF p \in {"idle", "returned", "raised"} THEN 0 ELSE 1

\* technical_analyzer = TechnicalAnalyzer(stock_data): __init__
TechnicalAnalyzer ==
    /\ pc \in {"idle", "returned"}
    /\ Len(returned) + InFlight(other.pc) < MaxCalls
    /\ \E stock_data \in CallSeries :
          /\ series' = stock_data
          /\ df' = stock_data
    /\ series_cols' = BaseColumns
    /\ cols' = {}
    /\ indicators' = InstanceDict(indicators)
    /\ signals' = InstanceDict(signals)
    /\ pc' = "calculate_ma"
    /\ error' = "none"
    /\ trend_score' = 0
    /\ raw_score' = 0
    /\ price_info' = EmptyDict
    /\ gen' = EmptyDict
    /\ signal_info' = EmptyDict
    /\ risk_metrics' = EmptyDict
    /\ UNCHANGED <<technical_config, risk_config, thresholds, other, returned>>

\* what an invocation is given
Input == [stock_data |-> series, sentiment_score |-> gen.sentiment_score]
\* what an invocation hands to the report
Output ==
    [price_info |-> price_info, technical_indicators |-> indicators,
     technical_signals |-> signals, technical_score |-> trend_score,
     signal_info |-> signal_info, risk_metrics |-> risk_metrics]

\* analyze returns its report
analyze_return ==
    /\ pc = "done"
    /\ returned' = Append(returned, [input |-> Input, output |-> Output])
    /\ pc' = "returned"
    /\ UNCHANGED <<series, series_cols, df, cols, indicators, signals, error, trend_score,
                   raw_score, price_info, thresholds, gen, signal_info, risk_metrics,
                   other, technical_config, risk_config>>

\* control passes from one invocation to the other
Switch ==
    /\ other' = Private
    /\ series' = other.series
    /\ series_cols' = other.series_cols
    /\ df' = other.df
    /\ cols' = other.cols
    /\ indicators' = other.indicators
    /\ signals' = other.signals
    /\ pc' = other.pc
    /\ error' = other.error
    /\ trend_score' = other.trend_score
    /\ raw_score' = other.raw_score
    /\ price_info' = other.price_info
    /\ gen' = other.gen
    /\ signal_info' = other.signal_info
    /\ risk_metrics' = other.risk_metrics
    /\ UNCHANGED <<technical_config, risk_config, thresholds, returned>>

InitCalls ==
    /\ series = <<>>
    /\ series_cols = BaseColumns
    /\ df = <<>>
    /\ cols = {}
    /\ indicators = EmptyDict
    /\ signals = EmptyDict
    /\ pc = "idle"
    /\ error = "none"
    /\ trend_score = 0
    /\ raw_score = 0
    /\ price_info = EmptyDict
    /\ thresholds = DefaultThresholds
    /\ gen = EmptyDict
    /\ signal_info = EmptyDict
    /\ risk_metrics = EmptyDict
    /\ other = Idle
    /\ returned = <<>>
    /\ technical_config = DefaultTechnicalConfig
    /\ risk_config = DefaultRiskConfig

NextCalls ==
    \/ TechnicalAnalyzer
    \/ Next
    \/ analyze_return
    \/ Switch

SpecCalls == InitCalls /\ [][NextCalls]_vars

(* C13: two invocations with identical inputs return identical outputs, whatever   *)
(* invocations ran before them or are interleaved with them                        *)

IdenticalInputsIdenticalOutputs ==
    \A i, j \in 1..Len(returned) :
        (returned[i].input = returned[j].input) =>
            (returned[i].output = returned[j].output)

\* the one-bar series analysed twice with the 21-bar series analysed in between
IdenticalInputsWitness ==
    /\ Len(returned) = 3
    /\ returned[1].input = returned[3].input
    /\ Len(returned[1].input.stock_data) = 1
    /\ Len(returned[2].input.stock_data) = 21
    /\ returned[2].output # returned[1].output

-----------------------------------------------------------------------------
(* C14: no operation of TechnicalAnalyzer (calculate_ma, calculate_rsi,            *)
(* calculate_macd, calculate_bollinger_bands, calculate_volume_indicators,         *)
(* calculate_atr, get_trend_score) changes the caller's price series: every step   *)
(* leaves its bars and its columns as they were, the derived columns are added to  *)
(* the analyzer's copy only                                                        *)

CallerSeriesUnchanged ==
    [][/\ series' = series
       /\ series_cols' = series_cols
       /\ (cols' # cols) => (cols \subseteq cols' /\ cols' \cap series_cols' = {})]_vars

\* all derived columns are on the analyzer's copy, none on the caller's series
CallerSeriesUnchangedWitness ==
    /\ Scored
    /\ Len(series) = 21
    /\ cols = {"MA5", "MA10", "MA20", "MA50", "RSI", "MACD", "MACD_Signal", "MACD_Hist",
               "BB_Middle", "BB_Upper", "BB_Lower", "Volume_MA", "ATR"}
    /\ series_cols = BaseColumns
    /\ df = series

-----------------------------------------------------------------------------
(* C15: in get_trend_score the volume clause applies only when the volume signal   *)
(* is high; it is evaluated on the sum of the MA-alignment, MA-crossover, MACD,    *)
(* RSI and Bollinger clauses, before the clamp: +5 when that sum is > 0, -5 when   *)
(* it is <= 0, exactly 0 included                                                  *)

\* the sum of the five clauses before the volume clause
FiveClauses ==
    MaAlignmentPoints(indicators) + MaCrossPoints(signals)
    + MacdPoints(indicators, signals) + RsiPoints(indicators) + BollingerPoints(signals)

VolumeClauseOnPartialSum ==
    Scored =>
        LET high == Get(signals, "volume", "None") = "high"
        IN  /\ (~high) => raw_score = FiveClauses
            /\ (high /\ FiveClauses > 0) => raw_score = FiveClauses + 5
            /\ (high /\ FiveClauses <= 0) => raw_score = FiveClauses - 5

\* high volume on a partial sum of exactly 0 (golden MA cross against a death MACD
\* cross): -5
VolumeClauseWitness ==
    /\ Scored
    /\ Get(signals, "volume", "None") = "high"
    /\ Get(signals, "ma_cross", "None") = "golden_cross"
    /\ Get(signals, "macd", "None") = "death_cross"
    /\ FiveClauses = 0
    /\ trend_score = -5

(* C16: the MACD clause of get_trend_score contributes exactly one of +20 (MACD    *)
(* golden cross), -20 (MACD death cross), +10 (no cross, histogram > 0), -10 (no   *)
(* cross, histogram < 0) or 0; the histogram sign is never added to a crossover    *)

\* the sum of the clauses before the volume clause other than the MACD clause
ClausesButMacd ==
    MaAlignmentPoints(indicators) + MaCrossPoints(signals)
    + RsiPoints(indicators) + BollingerPoints(signals)

MacdContributionExclusive ==
    Scored =>
        LET cross == Get(signals, "macd", "None")
            hist  == Get(indicators, "macd_hist", Int2Num(0))
            m == IF cross = "golden_cross" THEN 20
                 ELSE IF cross = "death_cross" THEN -20
                 ELSE IF Gt(hist, Int2Num(0)) THEN 10
                 ELSE IF Lt(hist, Int2Num(0)) THEN -10
                 ELSE 0
            volume == raw_score - ClausesButMacd - m
        IN  /\ m \in {-20, -10, 0, 10, 20}
            /\ IF Get(signals, "volume", "None") = "high"
               THEN volume = (IF ClausesButMacd + m > 0 THEN 5 ELSE -5)
               ELSE volume = 0

\* a MACD golden cross with a positive histogram and nothing else: 20, not 30
MacdContributionWitness ==
    /\ Scored
    /\ Get(signals, "macd", "None") = "golden_cross"
    /\ Gt(Get(indicators, "macd_hist", Int2Num(0)), Int2Num(0))
    /\ ClausesButMacd = 0
    /\ Get(signals, "volume", "None") # "high"
    /\ trend_score = 20

(* C17: get_trend_score treats every missing indicator as a contribution of 0: a   *)
(* clause whose key is absent or whose value is NaN adds nothing, and the          *)
(* IndicatorSet in which every indicator and signal is missing scores exactly 0    *)

\* the key is absent from the dict
Absent(dict, key) == key \notin DOMAIN dict
\* the key is absent or holds NaN
Missing(dict, key) == Absent(dict, key) \/ IsNaN(dict[key])

MissingIsNeutral ==
    Scored =>
        /\ (Absent(indicators, "ma_alignment") /\ Absent(signals, "ma_cross")
            /\ Absent(signals, "macd") /\ Missing(indicators, "macd_hist")
            /\ Missing(indicators, "rsi") /\ Absent(signals, "bollinger")
            /\ Absent(signals, "volume")) => trend_score = 0
        /\ (Missing(indicators, "rsi") /\ Absent(signals, "volume")) =>
               raw_score = MaAlignmentPoints(indicators) + MaCrossPoints(signals)
                           + MacdPoints(indicators, signals) + BollingerPoints(signals)

-----------------------------------------------------------------------------
(* C18: the MA crossover signal compares the two shortest configured windows (5    *)
(* and 10) at the last two bars: golden_cross iff shorter <= longer at the         *)
(* previous bar and shorter > longer at the latest bar, death_cross iff shorter    *)
(* >= longer at the previous bar and shorter < longer at the latest, else none;    *)
(* never both; the signal is computed only for a series of at least 2 bars         *)

\* calculate_ma has returned
MaDone == pc \notin {"idle", "calculate_ma", "raised"}

MaCrossTwoShortest ==
    MaDone =>
        LET n == Len(df)
            c == CloseCol(df)
            short_prev == RollingMean(c, ma_periods[1], n - 1)
            short_curr == RollingMean(c, ma_periods[1], n)
            long_prev  == RollingMean(c, ma_periods[2], n - 1)
            long_curr  == RollingMean(c, ma_periods[2], n)
            golden == Le(short_prev, long_prev) /\ Gt(short_curr, long_curr)
            death  == Ge(short_prev, long_prev) /\ Lt(short_curr, long_curr)
        IN  /\ ("ma_cross" \in DOMAIN signals) <=> (n >= 2)
            /\ ~(golden /\ death)
            /\ (n >= 2) =>
                  /\ (signals["ma_cross"] = "golden_cross") <=> golden
                  /\ (signals["ma_cross"] = "death_cross") <=> death
                  /\ (signals["ma_cross"] = "none") <=> (~golden /\ ~death)

(* C19: calculate_ma sets ma_alignment = bullish iff at the latest bar each        *)
(* configured moving average is strictly greater than the next-longer one, bearish *)
(* iff each is strictly less, mixed otherwise (any tie gives mixed); for a series  *)
(* with fewer bars than the longest window it reports mixed without raising; and   *)
(* bullish and bearish are never both true                                         *)

\* calculate_ma has been called
MaCalled == pc \notin {"idle", "calculate_ma"}

MaAlignmentStrictOrder ==
    MaCalled =>
        LET n == Len(series)
            ma == [j \in 1..Len(ma_periods) |->
                      RollingMean(CloseCol(series), ma_periods[j], n)]
            descending == \A j \in 1..(Len(ma_periods) - 1) : Gt(ma[j], ma[j+1])
            ascending  == \A j \in 1..(Len(ma_periods) - 1) : Lt(ma[j], ma[j+1])
        IN  /\ ~(descending /\ ascending)
            /\ pc # "raised"
            /\ "ma_alignment" \in DOMAIN indicators
            /\ (indicators["ma_alignment"] = "bullish") <=> descending
            /\ (indicators["ma_alignment"] = "bearish") <=> ascending
            /\ (indicators["ma_alignment"] = "mixed") <=> (~descending /\ ~ascending)
            /\ (n < ma_periods[Len(ma_periods)]) => indicators["ma_alignment"] = "mixed"

(* C20: when the Bollinger upper and lower bands coincide at the latest bar (a     *)
(* constant close over the Bollinger window) calculate_bollinger_bands reports     *)
(* bb_position = 50 and the signal within_bands                                    *)

\* calculate_bollinger_bands has returned
BollingerDone == "bb_position" \in DOMAIN indicators

ZeroWidthBandMidpoint ==
    (BollingerDone /\ NumEq(indicators["bb_upper"], indicators["bb_lower"])) =>
        /\ NumEq(indicators["bb_position"], Int2Num(50))
        /\ signals["bollinger"] = "within_bands"

-----------------------------------------------------------------------------
(* C21: calculate_risk_metrics maps the composite score to the position            *)
(* suggestion through half-open bands evaluated top-down: > 60 gives "40-50%",     *)
(* (30, 60] "30-40%", (0, 30] "20-30%", (-30, 0] "10-20%", <= -30 "0-10%"; the     *)
(* suggestion is non-decreasing in the composite score                             *)

PositionRank(p) ==
    CASE p = "0-10%" -> 0
      [] p = "10-20%" -> 1
      [] p = "20-30%" -> 2
      [] p = "30-40%" -> 3
      [] p = "40-50%" -> 4

\* composite scores around every band edge and at the ends of the range
PositionProbes ==
    {-100000, 100000} \cup {t * 1000 + e : t \in {60, 30, 0, -30}, e \in {-1, 0, 1}}

PositionBands ==
    RiskDone =>
        LET c == gen.composite_score
            p == risk_metrics.position_suggestion
        IN  /\ (c > 60000) => p = "40-50%"
            /\ (c > 30000 /\ c <= 60000) => p = "30-40%"
            /\ (c > 0 /\ c <= 30000) => p = "20-30%"
            /\ (c > -30000 /\ c <= 0) => p = "10-20%"
            /\ (c <= -30000) => p = "0-10%"
            /\ \A b \in PositionProbes :
                  /\ (b <= c) => PositionRank(PositionSuggestion(b)) <= PositionRank(p)
                  /\ (b >= c) => PositionRank(PositionSuggestion(b)) >= PositionRank(p)

\* a composite of exactly -30 under thresholds other than the defaults: "0-10%"
PositionBandsWitness ==
    /\ RiskDone
    /\ thresholds # DefaultThresholds
    /\ gen.composite_score = -30000
    /\ risk_metrics.position_suggestion = "0-10%"

-----------------------------------------------------------------------------
(* Specification of calculate_atr alone: the ATR of a price series under a         *)
(* configuration whose RSI period and ATR period are set independently             *)

\* the values the two periods are configured with
PeriodChoices == {13, 14, 15}

\* the price series around the length of the windows
AtrSeries == {s \in SeriesSet : Len(s) >= 13 /\ Len(s) <= 15}

InitAtr ==
    /\ series \in AtrSeries
    /\ df = series
    /\ cols = {}
    /\ indicators = EmptyDict
    /\ signals = EmptyDict
    /\ pc = "calculate_atr"
    /\ error = "none"
    /\ trend_score = 0
    /\ raw_score = 0
    /\ price_info = EmptyDict
    /\ thresholds = DefaultThresholds
    /\ gen = EmptyDict
    /\ signal_info = EmptyDict
    /\ risk_metrics = EmptyDict
    /\ series_cols = BaseColumns
    /\ other = EmptyDict
    /\ returned = <<>>
    /\ technical_config \in {[rsi_period |-> p] : p \in PeriodChoices}
    /\ risk_config \in {[atr_period |-> p] : p \in PeriodChoices}

NextAtr == calculate_atr

SpecAtr == InitAtr /\ [][NextAtr]_vars

(* C22: the ATR is the rolling mean of the true range over the configured ATR      *)
(* period, a value independent of the RSI period: changing only the RSI period     *)
(* leaves the ATR window unchanged, changing only the ATR period changes it; the   *)
(* true range of the first bar, which has no previous close, is high - low         *)

\* both NaN or the same number
SameValue(a, b) == (IsNaN(a) /\ IsNaN(b)) \/ NumEq(a, b)

\* calculate_atr has returned
AtrStored == "atr" \in DOMAIN indicators

\* the rolling mean over the last `period` bars of the true range, high - low at
\* the first bar
MeanTrueRange(d, period) ==
    LET n == Len(d)
        tr == [i \in 1..n |->
                  IF i = 1 THEN d[1].High - d[1].Low
                  ELSE Max2(d[i].High - d[i].Low,
                            Max2(Abs(d[i].High - d[i-1].Close),
                                 Abs(d[i].Low - d[i-1].Close)))]
    IN  IF n < period THEN NaN ELSE Num(SumRange(tr, n - period + 1, n), period)

AtrOverAtrPeriod ==
    AtrStored =>
        SameValue(indicators["atr"], MeanTrueRange(series, risk_config.atr_period))

-----------------------------------------------------------------------------
(* C23: for current_price > 0 and atr >= 0 the values calculate_risk_metrics       *)
(* computes satisfy fixed-percentage stop <= stop_loss <= current_price <=         *)
(* target_price; the stop distance is at most 3% of current_price and the target   *)
(* distance at most 6%; the ATR method is selected only when atr * 2 <             *)
(* current_price * 0.03, so stop_loss_method = ATR never comes with                *)
(* volatility_level = high                                                         *)

RiskOrdering ==
    (RiskDone /\ IsNum(gen.atr) /\ gen.atr.n >= 0 /\ gen.current_price > 0) =>
        LET cp  == gen.current_price
            atr == gen.atr
            den == 100 * atr.d                  \* common denominator, in cents
            price == cp * den
            atr_stop == price - 2 * atr.n * 100
            pct_stop == 97 * cp * atr.d
            atr_narrower == 2 * atr.n * 100 < 3 * cp * atr.d
        IN  /\ \E stop \in {atr_stop, pct_stop} :
                  /\ pct_stop <= stop /\ stop <= price
                  /\ 100 * (price - stop) <= 3 * price
                  /\ risk_metrics.stop_loss \in RoundChoices(stop, den)
                  /\ risk_metrics.target_price
                         \in RoundChoices(price + 2 * (price - stop), den)
                  /\ 100 * (2 * (price - stop)) <= 6 * price
                  /\ (risk_metrics.stop_loss_method = "ATR") => stop = atr_stop
            /\ risk_metrics.stop_loss <= cp
            /\ cp <= risk_metrics.target_price
            /\ risk_metrics.stop_loss_pct <= 300
            /\ risk_metrics.target_pct <= 600
            /\ (risk_metrics.stop_loss_method = "ATR") => atr_narrower
            /\ ~(risk_metrics.stop_loss_method = "ATR"
                 /\ risk_metrics.volatility_level = "high")

\* price 99.99 and ATR 1.00: the ATR stop 97.99 is the larger one, volatility medium
RiskOrderingWitness ==
    /\ RiskDone
    /\ gen.current_price = 9999 /\ gen.atr = Num(100, 1)
    /\ risk_metrics.stop_loss_method = "ATR"
    /\ risk_metrics.stop_loss = 9799
    /\ risk_metrics.target_price = 10399
    /\ risk_metrics.volatility_level = "medium"

=============================================================================
